---- MODULE Spec2Model ----
(***************************************************************************)
(* Model of clean.py: the folder-size inventory (find_largest_folders),    *)
(* the fdupes output parser (find_duplicates_below), the multi-save        *)
(* filename matcher (find_browser_multi_saves) and the module-level        *)
(* cleanup loop.  Text is modelled as sequences of one-character strings   *)
(* so that strip, isdigit, the regular expressions and Path.name are       *)
(* computed, character by character, the way the code computes them.       *)
(***************************************************************************)
EXTENDS Integers, Sequences, FiniteSets, TLC

VARIABLES
    \* ---- find_duplicates_below and the cleanup loop
    pc,              \* position in the duplicate pipeline
    returncode,      \* result.returncode of the fdupes run
    stderr,          \* result.stderr of the fdupes run, as long as it can
                     \* still be read: nothing reads it after a zero exit
    runs,            \* number of times fdupes has been invoked
    exc,             \* the exception that ended the pipeline, or "none"
    exc_text,        \* the text the exception carries
    stdout,          \* the lines of result.stdout.split('\n') consumed so far
    current_group,   \* clean.py:101
    current_size,    \* clean.py:102
    duplicates,      \* clean.py:100; sorted once the function has returned
    emitted,         \* the list as appended by the flushes, before the sort
    idx,             \* index of the triple the cleanup loop is at
    pending,         \* multi_saves of that triple still to be deleted
    st_size,         \* the value s.stat().st_size returned last
    deleted_amount,  \* clean.py:179
    exists,          \* the paths that exist on the filesystem
    unlinked,        \* the unlink() calls that succeeded: <<path, st_size>>
    \* ---- find_browser_multi_saves, run on its own
    mpc, file_paths, pos, original_names, multi_saves,
    \* ---- find_largest_folders
    fpc, listing, cwd_names, unreadable, item, folder_sizes

dupVars == <<pc, returncode, stderr, runs, exc, exc_text, stdout, current_group,
             current_size, duplicates, emitted, idx, pending, st_size,
             deleted_amount, exists, unlinked>>
msVars  == <<mpc, file_paths, pos, original_names, multi_saves>>
dirVars == <<fpc, listing, cwd_names, unreadable, item, folder_sizes>>
vars    == <<dupVars, msVars, dirVars>>

---------------------------------------------------------------------------
(* Bounds of the model.                                                    *)

MaxLines == 6   \* lines of fdupes output consumed by one run
MaxListed == 3  \* paths of the one group the cleanup loop is run on alone
MaxPaths == 3   \* length of a list given to find_browser_multi_saves alone
MaxItems == 3   \* entries of root_dir listed by iterdir()

---------------------------------------------------------------------------
(* Text.                                                                   *)

Digits == {"0", "1", "2", "3", "4", "5", "6", "7", "8", "9"}

\* str.isdigit() of one character
IsDigit(c) == c \in Digits

\* the whitespace characters str.strip() removes, and the shell splits at
Whitespace == {" ", "\t", "\n"}

RECURSIVE LStrip(_)
LStrip(s) == IF s # <<>> /\ Head(s) \in Whitespace THEN LStrip(Tail(s)) ELSE s

RECURSIVE RStrip(_)
RStrip(s) ==
    IF s # <<>> /\ s[Len(s)] \in Whitespace
    THEN RStrip(SubSeq(s, 1, Len(s) - 1)) ELSE s

\* str.strip()
Strip(s) == RStrip(LStrip(s))

DigitValue(c) ==
    CASE c = "0" -> 0 [] c = "1" -> 1 [] c = "2" -> 2 [] c = "3" -> 3
      [] c = "4" -> 4 [] c = "5" -> 5 [] c = "6" -> 6 [] c = "7" -> 7
      [] c = "8" -> 8 [] c = "9" -> 9

\* int() of a string of decimal digits
RECURSIVE ParseInt(_)
ParseInt(s) ==
    IF s = <<>> THEN 0
    ELSE 10 * ParseInt(SubSeq(s, 1, Len(s) - 1)) + DigitValue(s[Len(s)])

\* s[i..] starts with t
StartsAt(s, i, t) ==
    /\ i + Len(t) - 1 <= Len(s)
    /\ \A k \in 1..Len(t) : s[i + k - 1] = t[k]

\* `needle in haystack` for strings
Contains(haystack, needle) ==
    \E i \in 1..(Len(haystack) + 1) : StartsAt(haystack, i, needle)

\* end of the run of digits that starts at i (i - 1 when s[i] is no digit)
RECURSIVE DigitRunEnd(_, _)
DigitRunEnd(s, i) ==
    IF i <= Len(s) /\ IsDigit(s[i]) THEN DigitRunEnd(s, i + 1) ELSE i - 1

BytesSuffix == <<" ", "b", "y", "t", "e", "s">>

\* The start positions at which r'(\d+) bytes' matches: a digit run that
\* reaches up to " bytes".  \d+ cannot stop short of the run's end, since
\* the next character it must leave to the literal is a space.
BytesMatchStarts(line) ==
    {i \in 1..Len(line) :
        /\ IsDigit(line[i])
        /\ StartsAt(line, DigitRunEnd(line, i) + 1, BytesSuffix)}

\* re.search(r'(\d+) bytes', line) is not None
BytesMatches(line) == BytesMatchStarts(line) # {}

\* match.group(1) of the leftmost match
BytesGroup1(line) ==
    LET i == CHOOSE m \in BytesMatchStarts(line) :
                 \A n \in BytesMatchStarts(line) : m <= n
    IN  SubSeq(line, i, DigitRunEnd(line, i))

BytesPerKB == 1024


---------------------------------------------------------------------------
(* find_duplicates_below: the exit-status check and the parser.            *)

CommandNotFound ==
    <<"c", "o", "m", "m", "a", "n", "d", " ", "n", "o", "t", " ",
      "f", "o", "u", "n", "d">>

\* FdupesCheck with the 'command not found' test left out
FdupesCheck_NoNotFound(rc, err) ==
    IF rc # 0 THEN "RuntimeError" ELSE "ok"

\* clean.py:93-97: "ok", or the exception raised
FdupesCheck(rc, err) ==
    IF rc # 0
    THEN IF Contains(err, CommandNotFound)
         THEN "FileNotFoundError" ELSE "RuntimeError"
    ELSE "ok"

\* clean.py:106: line[0].isdigit(), on the line as split (not stripped)
IsSizeLine(line) == IsDigit(line[1])

\* HeaderSize falling back to 0 when the line declares no size
HeaderSize_ResetsOnMiss(size, line) ==
    IF BytesMatches(line) THEN ParseInt(BytesGroup1(line)) \div BytesPerKB
    ELSE 0

\* clean.py:114-116: the size after a size line
HeaderSize(size, line) ==
    IF BytesMatches(line) THEN ParseInt(BytesGroup1(line)) \div BytesPerKB
    ELSE size

\* GroupTriples looping over range(len(group)), pairing group[0] with
\* group[i]
GroupTriples_OffByOne(group, size) ==
    [i \in 1..Len(group) |-> <<group[1], group[i], size>>]

\* GroupTriples with the members of a triple in the other order
GroupTriples_Swapped(group, size) ==
    [i \in 1..(Len(group) - 1) |-> <<group[i + 1], group[1], size>>]

\* clean.py:110-111 and 123-124: one triple per member after the first
GroupTriples(group, size) ==
    [i \in 1..(Len(group) - 1) |-> <<group[1], group[i + 1], size>>]

\* clean.py:108-111 and 122-124
Flush(dups, group, size) ==
    IF group # <<>> THEN dups \o GroupTriples(group, size) ELSE dups

\* ParseStep reading the new size before it flushes the previous group
ParseStep_SizeBeforeFlush(st, line) ==
    IF Strip(line) # <<>>
    THEN IF IsSizeLine(line)
         THEN [duplicates    |-> Flush(st.duplicates, st.current_group,
                                       HeaderSize(st.current_size, line)),
               current_group |-> <<>>,
               current_size  |-> HeaderSize(st.current_size, line)]
         ELSE [st EXCEPT !.current_group = Append(@, Strip(line))]
    ELSE st

\* clean.py:105-119: the body of the loop over the lines, for one line
ParseStep(st, line) ==
    IF Strip(line) # <<>>
    THEN IF IsSizeLine(line)
         THEN [duplicates    |-> Flush(st.duplicates, st.current_group,
                                       st.current_size),
               current_group |-> <<>>,
               current_size  |-> HeaderSize(st.current_size, line)]
         ELSE [st EXCEPT !.current_group = Append(@, Strip(line))]
    ELSE st

\* list.sort(key=lambda x: x[k], reverse=True): stable, largest key first
RECURSIVE InsertDesc(_, _, _)
InsertDesc(sorted, t, k) ==
    IF sorted = <<>> THEN <<t>>
    ELSE IF Head(sorted)[k] >= t[k]
         THEN <<Head(sorted)>> \o InsertDesc(Tail(sorted), t, k)
         ELSE <<t>> \o sorted

RECURSIVE StableSortDesc(_, _)
StableSortDesc(seq, k) ==
    IF seq = <<>> THEN <<>>
    ELSE InsertDesc(StableSortDesc(SubSeq(seq, 1, Len(seq) - 1), k),
                    seq[Len(seq)], k)

RECURSIVE Reverse(_)
Reverse(seq) ==
    IF seq = <<>> THEN <<>> ELSE Append(Reverse(Tail(seq)), Head(seq))

\* SortDuplicates without reverse=True
SortDuplicates_Ascending(dups) == Reverse(StableSortDesc(dups, 3))

\* clean.py:127
SortDuplicates(dups) == StableSortDesc(dups, 3)

---------------------------------------------------------------------------
(* find_browser_multi_saves.                                               *)

\* the last position of c in s, 0 when there is none
RECURSIVE LastIndexOf(_, _)
LastIndexOf(s, c) ==
    IF s = <<>> THEN 0
    ELSE IF s[Len(s)] = c THEN Len(s)
         ELSE LastIndexOf(SubSeq(s, 1, Len(s) - 1), c)

\* Path.name of a path that does not end in "/"
PathName(p) == SubSeq(p, LastIndexOf(p, "/") + 1, Len(p))

\* start of the run of digits that ends at i (i + 1 when s[i] is no digit)
RECURSIVE DigitRunStart(_, _)
DigitRunStart(s, i) ==
    IF i >= 1 /\ IsDigit(s[i]) THEN DigitRunStart(s, i - 1) ELSE i + 1

\* clean.py:155, 161: multi_save_pattern.match(name), r'^(.+) \(\d+\)(\.[^.]+)$'.
\* [^.]+$ makes group 2 start at the last "."; ")" comes right before it,
\* the digits before that reach back to "(", " " precedes it, and what is
\* left in front is group 1, which must not be empty.
MultiSaveMatch(name) ==
    LET dot == LastIndexOf(name, ".")
        ds  == DigitRunStart(name, dot - 2)
        ok  == /\ dot >= 1
               /\ dot < Len(name)
               /\ dot - 1 >= 1
               /\ name[dot - 1] = ")"
               /\ ds <= dot - 2
               /\ ds - 1 >= 1
               /\ name[ds - 1] = "("
               /\ ds - 2 >= 1
               /\ name[ds - 2] = " "
               /\ ds - 3 >= 1
    IN  IF ok
        THEN [ok |-> TRUE, group1 |-> SubSeq(name, 1, ds - 3),
              group2 |-> SubSeq(name, dot, Len(name))]
        ELSE [ok |-> FALSE, group1 |-> <<>>, group2 |-> <<>>]

\* original_names[name] = path
DictSet(d, name, path) ==
    [n \in (DOMAIN d) \cup {name} |-> IF n = name THEN path ELSE d[n]]

\* MultiSaveStep registering every path, reported or not
MultiSaveStep_AlwaysRegisters(st, path) ==
    LET name == PathName(path)
        m    == MultiSaveMatch(name)
    IN  IF m.ok /\ (m.group1 \o m.group2) \in DOMAIN st.original_names
        THEN [st EXCEPT !.multi_saves = Append(@, path),
                        !.original_names = DictSet(@, name, path)]
        ELSE [st EXCEPT !.original_names = DictSet(@, name, path)]

\* clean.py:160-174: the body of the loop over file_paths, for one path
MultiSaveStep(st, path) ==
    LET name == PathName(path)
        m    == MultiSaveMatch(name)
    IN  IF m.ok
        THEN IF (m.group1 \o m.group2) \in DOMAIN st.original_names
             THEN [st EXCEPT !.multi_saves = Append(@, path)]
             ELSE [st EXCEPT !.original_names = DictSet(@, name, path)]
        ELSE [st EXCEPT !.original_names = DictSet(@, name, path)]

EmptyDict == [n \in {} |-> <<>>]

RECURSIVE MultiSaveFold(_, _)
MultiSaveFold(st, paths) ==
    IF paths = <<>> THEN st
    ELSE MultiSaveFold(MultiSaveStep(st, Head(paths)), Tail(paths))

\* clean.py:145-176
FindBrowserMultiSaves(paths) ==
    MultiSaveFold([original_names |-> EmptyDict, multi_saves |-> <<>>],
                  paths).multi_saves

---------------------------------------------------------------------------
(* Inputs of the duplicate pipeline.                                       *)

\* lines fdupes -r -S prints
BlankLine == <<>>
\* "102400 bytes each:"
HdrA == <<"1", "0", "2", "4", "0", "0", " ", "b", "y", "t", "e", "s", " ",
          "e", "a", "c", "h", ":">>
\* "5000 bytes each:"
HdrB == <<"5", "0", "0", "0", " ", "b", "y", "t", "e", "s", " ",
          "e", "a", "c", "h", ":">>
\* "1 byte each:", the size line fdupes prints for files of one byte
HdrByte == <<"1", " ", "b", "y", "t", "e", " ", "e", "a", "c", "h", ":">>
\* "/d/f.t"
PathF == <<"/", "d", "/", "f", ".", "t">>
\* "/d/f (1).t"
PathF1 == <<"/", "d", "/", "f", " ", "(", "1", ")", ".", "t">>

\* "/d/f (2).t"
PathF2 == <<"/", "d", "/", "f", " ", "(", "2", ")", ".", "t">>

LinePool == {BlankLine, HdrA, HdrB, HdrByte, PathF, PathF1}

\* the files below root_dir when fdupes lists them
FilesOnDisk == {PathF, PathF1, PathF2}

\* exit statuses of the shell that runs fdupes
ExitCodes == {0, 1, 127}

\* "sh: fdupes: command not found"
ErrNotFound ==
    <<"s", "h", ":", " ", "f", "d", "u", "p", "e", "s", ":", " ">>
        \o CommandNotFound
\* "fdupes: bad option"
ErrOther == <<"f", "d", "u", "p", "e", "s", ":", " ", "b", "a", "d", " ",
              "o", "p", "t", "i", "o", "n">>

StderrPool == {<<>>, ErrNotFound, ErrOther}

\* values st_size takes
StatSizes == {2048, 5000}

---------------------------------------------------------------------------
(* The duplicate pipeline: clean.py:132 and clean.py:179-188.              *)

DupInit ==
    /\ pc = "start"
    /\ returncode = 0
    /\ stderr = <<>>
    /\ runs = 0
    /\ exc = "none"
    /\ exc_text = <<>>
    /\ stdout = <<>>
    /\ current_group = <<>>
    /\ current_size = 0
    /\ duplicates = <<>>
    /\ emitted = <<>>
    /\ idx = 0
    /\ pending = <<>>
    /\ st_size = 0
    /\ deleted_amount = 0
    /\ exists = FilesOnDisk
    /\ unlinked = <<>>

\* clean.py:89-102: run fdupes, check its exit status
RunFdupes ==
    /\ pc = "start"
    /\ \E rc \in ExitCodes, err \in StderrPool :
         /\ returncode' = rc
         /\ runs' = runs + 1
         /\ IF FdupesCheck(rc, err) = "ok"
            THEN /\ pc' = "parse"
                 /\ stderr' = <<>>
                 /\ UNCHANGED <<exc, exc_text>>
            ELSE /\ pc' = "raised"
                 /\ stderr' = err
                 /\ exc' = FdupesCheck(rc, err)
                 /\ exc_text' = IF FdupesCheck(rc, err) = "RuntimeError"
                                THEN err ELSE <<>>
    /\ UNCHANGED <<stdout, current_group, current_size, duplicates, emitted,
                   idx, pending, st_size, deleted_amount, exists, unlinked>>

\* clean.py:104-119: one iteration of the loop over the lines of stdout
ParseLine ==
    /\ pc = "parse"
    /\ Len(stdout) < MaxLines
    /\ \E line \in LinePool :
         LET st == ParseStep([duplicates    |-> duplicates,
                              current_group |-> current_group,
                              current_size  |-> current_size], line)
         IN  /\ stdout' = Append(stdout, line)
             /\ duplicates' = st.duplicates
             /\ current_group' = st.current_group
             /\ current_size' = st.current_size
    /\ UNCHANGED <<pc, returncode, stderr, runs, exc, exc_text, emitted, idx,
                   pending, st_size, deleted_amount, exists, unlinked>>

\* clean.py:121-129 and 179: the lines are exhausted; the last group is
\* flushed, the list sorted and returned, and the cleanup loop is entered
FinishParse ==
    /\ pc = "parse"
    /\ emitted' = Flush(duplicates, current_group, current_size)
    /\ duplicates' = SortDuplicates(emitted')
    /\ pc' = "loop"
    /\ idx' = 1
    /\ deleted_amount' = 0
    /\ UNCHANGED <<returncode, stderr, runs, exc, exc_text, stdout,
                   current_group, current_size, pending, st_size, exists,
                   unlinked>>

\* clean.py:180-182: the next triple, and its multi-saves
LoopNext ==
    /\ pc = "loop"
    /\ idx <= Len(duplicates)
    /\ LET ms == FindBrowserMultiSaves(<<duplicates[idx][1],
                                         duplicates[idx][2]>>)
       IN  IF ms # <<>>
           THEN /\ pending' = ms
                /\ pc' = "stat"
                /\ idx' = idx
           ELSE /\ pending' = <<>>
                /\ pc' = "loop"
                /\ idx' = idx + 1
    /\ UNCHANGED <<returncode, stderr, runs, exc, exc_text, stdout,
                   current_group, current_size, duplicates, emitted, st_size,
                   deleted_amount, exists, unlinked>>

\* StatAdd adding the size of the triple, duplicate[2] KB, instead of st_size
StatAdd_CountsTripleSize ==
    /\ pc = "stat"
    /\ IF Head(pending) \in exists
       THEN \E sz \in StatSizes :
              /\ st_size' = sz
              /\ deleted_amount' =
                     deleted_amount + duplicates[idx][3] * BytesPerKB
              /\ pc' = "unlink"
              /\ UNCHANGED <<exc, exc_text>>
       ELSE /\ pc' = "raised"
            /\ exc' = "FileNotFoundError"
            /\ exc_text' = Head(pending)
            /\ UNCHANGED <<st_size, deleted_amount>>
    /\ UNCHANGED <<returncode, stderr, runs, stdout, current_group,
                   current_size, duplicates, emitted, idx, pending, exists,
                   unlinked>>

\* clean.py:186: deleted_amount += s.stat().st_size; stat() raises
\* FileNotFoundError when the path does not exist
StatAdd ==
    /\ pc = "stat"
    /\ IF Head(pending) \in exists
       THEN \E sz \in StatSizes :
              /\ st_size' = sz
              /\ deleted_amount' = deleted_amount + sz
              /\ pc' = "unlink"
              /\ UNCHANGED <<exc, exc_text>>
       ELSE /\ pc' = "raised"
            /\ exc' = "FileNotFoundError"
            /\ exc_text' = Head(pending)
            /\ UNCHANGED <<st_size, deleted_amount>>
    /\ UNCHANGED <<returncode, stderr, runs, stdout, current_group,
                   current_size, duplicates, emitted, idx, pending, exists,
                   unlinked>>

\* clean.py:187: s.unlink() removes the file
Unlink ==
    /\ pc = "unlink"
    /\ exists' = exists \ {Head(pending)}
    /\ unlinked' = Append(unlinked, <<Head(pending), st_size>>)
    /\ pending' = Tail(pending)
    /\ IF Tail(pending) = <<>>
       THEN pc' = "loop" /\ idx' = idx + 1
       ELSE pc' = "stat" /\ idx' = idx
    /\ UNCHANGED <<returncode, stderr, runs, exc, exc_text, stdout,
                   current_group, current_size, duplicates, emitted, st_size,
                   deleted_amount>>

\* clean.py:187: s.unlink() raises (the directory is not writable)
UnlinkFails ==
    /\ pc = "unlink"
    /\ pc' = "raised"
    /\ exc' = "PermissionError"
    /\ exc_text' = Head(pending)
    /\ UNCHANGED <<returncode, stderr, runs, stdout, current_group,
                   current_size, duplicates, emitted, idx, pending, st_size,
                   deleted_amount, exists, unlinked>>

\* clean.py:188: the loop is over
LoopDone ==
    /\ pc = "loop"
    /\ idx > Len(duplicates)
    /\ pc' = "done"
    /\ UNCHANGED <<returncode, stderr, runs, exc, exc_text, stdout,
                   current_group, current_size, duplicates, emitted, idx,
                   pending, st_size, deleted_amount, exists, unlinked>>

MsIdle ==
    /\ mpc = "idle"
    /\ file_paths = <<>>
    /\ pos = 0
    /\ original_names = EmptyDict
    /\ multi_saves = <<>>

DirIdle ==
    /\ fpc = "idle"
    /\ listing = <<>>
    /\ cwd_names = {}
    /\ unreadable = {}
    /\ item = 0
    /\ folder_sizes = <<>>

Init == DupInit /\ MsIdle /\ DirIdle

\* clean.py:104-119: the loop over the lines of a whole text
RECURSIVE ParseFold(_, _)
ParseFold(st, lines) ==
    IF lines = <<>> THEN st
    ELSE ParseFold(ParseStep(st, Head(lines)), Tail(lines))

\* the lists of at most n paths
RECURSIVE PathLists(_)
PathLists(n) ==
    IF n = 0 THEN {<<>>}
    ELSE PathLists(n - 1) \cup
         {Append(l, p) : l \in {m \in PathLists(n - 1) : Len(m) = n - 1},
                         p \in FilesOnDisk}

\* fdupes output of one group: a size line and up to MaxListed paths
GroupTexts == {<<h>> \o l : h \in {HdrA, HdrB}, l \in PathLists(MaxListed)}

\* The cleanup loop on its own: find_duplicates_below has returned the
\* triples of a one-group text (clean.py:132) and the loop starts
\* (clean.py:179).
CleanInit ==
    \E text \in GroupTexts :
        LET st == ParseFold([duplicates |-> <<>>, current_group |-> <<>>,
                             current_size |-> 0], text)
        IN  /\ pc = "loop"
            /\ returncode = 0
            /\ stderr = <<>>
            /\ runs = 1
            /\ exc = "none"
            /\ exc_text = <<>>
            /\ stdout = text
            /\ current_group = st.current_group
            /\ current_size = st.current_size
            /\ emitted = Flush(st.duplicates, st.current_group,
                               st.current_size)
            /\ duplicates = SortDuplicates(emitted)
            /\ idx = 1
            /\ pending = <<>>
            /\ st_size = 0
            /\ deleted_amount = 0
            /\ exists = FilesOnDisk
            /\ unlinked = <<>>

InitClean == CleanInit /\ MsIdle /\ DirIdle

NextClean ==
    \/ LoopNext /\ UNCHANGED <<msVars, dirVars>>
    \/ StatAdd /\ UNCHANGED <<msVars, dirVars>>
    \/ Unlink /\ UNCHANGED <<msVars, dirVars>>
    \/ UnlinkFails /\ UNCHANGED <<msVars, dirVars>>
    \/ LoopDone /\ UNCHANGED <<msVars, dirVars>>

SpecClean == InitClean /\ [][NextClean]_vars

Next ==
    \/ RunFdupes /\ UNCHANGED <<msVars, dirVars>>
    \/ ParseLine /\ UNCHANGED <<msVars, dirVars>>
    \/ FinishParse /\ UNCHANGED <<msVars, dirVars>>
    \/ LoopNext /\ UNCHANGED <<msVars, dirVars>>
    \/ StatAdd /\ UNCHANGED <<msVars, dirVars>>
    \/ Unlink /\ UNCHANGED <<msVars, dirVars>>
    \/ UnlinkFails /\ UNCHANGED <<msVars, dirVars>>
    \/ LoopDone /\ UNCHANGED <<msVars, dirVars>>

Spec == Init /\ [][Next]_vars

---------------------------------------------------------------------------
(* find_browser_multi_saves run on its own: clean.py:145-176.              *)

\* "/e/f (1).t"
PathEF1 == <<"/", "e", "/", "f", " ", "(", "1", ")", ".", "t">>
\* "/d/f (1) (2).t"
PathF12 == <<"/", "d", "/", "f", " ", "(", "1", ")", " ", "(", "2", ")",
             ".", "t">>
\* "/d/f (x).t"
PathFx == <<"/", "d", "/", "f", " ", "(", "x", ")", ".", "t">>
\* "/d/f (1).a.t"
PathF1at == <<"/", "d", "/", "f", " ", "(", "1", ")", ".", "a", ".", "t">>

MultiPool == {PathF, PathF1, PathF2, PathEF1, PathF12, PathFx, PathF1at}

\* the lists of at most n paths of the pool
RECURSIVE MultiLists(_)
MultiLists(n) ==
    IF n = 0 THEN {<<>>}
    ELSE MultiLists(n - 1) \cup
         {Append(l, p) : l \in {m \in MultiLists(n - 1) : Len(m) = n - 1},
                         p \in MultiPool}

DupIdle ==
    /\ pc = "idle"
    /\ returncode = 0
    /\ stderr = <<>>
    /\ runs = 0
    /\ exc = "none"
    /\ exc_text = <<>>
    /\ stdout = <<>>
    /\ current_group = <<>>
    /\ current_size = 0
    /\ duplicates = <<>>
    /\ emitted = <<>>
    /\ idx = 0
    /\ pending = <<>>
    /\ st_size = 0
    /\ deleted_amount = 0
    /\ exists = FilesOnDisk
    /\ unlinked = <<>>

\* clean.py:155-157
MsInit ==
    /\ mpc = "loop"
    /\ file_paths \in MultiLists(MaxPaths)
    /\ pos = 1
    /\ original_names = EmptyDict
    /\ multi_saves = <<>>

\* clean.py:159-174: one iteration of the loop over file_paths
MsIterate ==
    /\ mpc = "loop"
    /\ pos <= Len(file_paths)
    /\ LET st == MultiSaveStep([original_names |-> original_names,
                                multi_saves |-> multi_saves],
                               file_paths[pos])
       IN  /\ original_names' = st.original_names
           /\ multi_saves' = st.multi_saves
    /\ pos' = pos + 1
    /\ UNCHANGED <<mpc, file_paths>>

\* clean.py:176
MsReturn ==
    /\ mpc = "loop"
    /\ pos > Len(file_paths)
    /\ mpc' = "returned"
    /\ UNCHANGED <<file_paths, pos, original_names, multi_saves>>

InitMulti == DupIdle /\ MsInit /\ DirIdle

NextMulti ==
    \/ MsIterate /\ UNCHANGED <<dupVars, dirVars>>
    \/ MsReturn /\ UNCHANGED <<dupVars, dirVars>>

SpecMulti == InitMulti /\ [][NextMulti]_vars

---------------------------------------------------------------------------
(* find_largest_folders: clean.py:7-41.                                    *)

UnknownSize == -1

\* "/r", the resolved root_dir
RootDir == <<"/", "r">>

\* entries of root_dir: directories "mu", "vi", "mu vi", "pr", file "n.t"
EntryPool ==
    {[name |-> <<"m", "u">>, is_dir |-> TRUE],
     [name |-> <<"v", "i">>, is_dir |-> TRUE],
     [name |-> <<"m", "u", " ", "v", "i">>, is_dir |-> TRUE],
     [name |-> <<"p", "r">>, is_dir |-> TRUE],
     [name |-> <<"n", ".", "t">>, is_dir |-> FALSE]}

\* the listings of at most n distinct entries
RECURSIVE Listings(_)
Listings(n) ==
    IF n = 0 THEN {<<>>}
    ELSE Listings(n - 1) \cup
         {Append(l, e) : l \in {m \in Listings(n - 1) : Len(m) = n - 1},
                         e \in EntryPool}

Distinct(l) == \A i, j \in 1..Len(l) : l[i] = l[j] => i = j

\* root_dir / name
FolderPath(name) == RootDir \o <<"/">> \o name

\* the words of a command line as the shell splits it at blanks
RECURSIVE ShellWords(_, _)
ShellWords(s, word) ==
    IF s = <<>> THEN (IF word = <<>> THEN <<>> ELSE <<word>>)
    ELSE IF Head(s) \in Whitespace
         THEN (IF word = <<>> THEN <<>> ELSE <<word>>) \o ShellWords(Tail(s), <<>>)
         ELSE ShellWords(Tail(s), Append(word, Head(s)))

\* clean.py:16: f"du -sk {folder}"
DuCommand(folder) == <<"d", "u", " ", "-", "s", "k", " ">> \o folder

\* the operands du is given
DuOperands(folder) ==
    LET w == ShellWords(DuCommand(folder), <<>>) IN SubSeq(w, 3, Len(w))

\* str.split(sep)
RECURSIVE Split(_, _, _)
Split(s, sep, part) ==
    IF s = <<>> THEN <<part>>
    ELSE IF Head(s) = sep THEN <<part>> \o Split(Tail(s), sep, <<>>)
         ELSE Split(Tail(s), sep, Append(part, Head(s)))

\* the sizes, in KB, du reports
DuSizes == {<<"8">>, <<"1", "2">>}

\* du -sk: an operand exists when it names an entry of root_dir or, when
\* relative, an entry of the working directory; du prints "<size>\t<operand>"
\* for each one that exists, and exits non-zero when one is missing or
\* cannot be read
OperandExists(op, entries, cwd) ==
    \/ \E i \in 1..Len(entries) : op = FolderPath(entries[i].name)
    \/ op \in cwd

RECURSIVE DuStdout(_, _, _, _)
DuStdout(ops, size, entries, cwd) ==
    IF ops = <<>> THEN <<>>
    ELSE (IF OperandExists(Head(ops), entries, cwd)
          THEN size \o <<"\t">> \o Head(ops) \o <<"\n">> ELSE <<>>)
         \o DuStdout(Tail(ops), size, entries, cwd)

DuReturncode(ops, entries, cwd, denied) ==
    IF \A k \in 1..Len(ops) :
           OperandExists(ops[k], entries, cwd) /\ ops[k] \notin denied
    THEN 0 ELSE 1

\* int() accepts the string
IsIntText(s) == s # <<>> /\ \A k \in 1..Len(s) : IsDigit(s[k])

\* clean.py:12-23: <<folder, size>>, or the exception that leaves the function
GetFolderSize(folder, size, entries, cwd, denied) ==
    LET ops   == DuOperands(folder)
        parts == Split(DuStdout(ops, size, entries, cwd), "\t", <<>>)
    IN  IF DuReturncode(ops, entries, cwd, denied) # 0
        THEN [raises |-> "none", value |-> <<folder, UnknownSize>>]
        ELSE IF Len(parts) # 2 \/ ~IsIntText(parts[1])
             THEN [raises |-> "ValueError", value |-> <<>>]
             ELSE [raises |-> "none", value |-> <<folder, ParseInt(parts[1])>>]

\* clean.py:39
SortFolders(sizes) == StableSortDesc(sizes, 2)

\* clean.py:26-29: the entries iterdir() will yield, the working directory
\* and the directories that cannot be read
DirInit ==
    /\ fpc = "loop"
    /\ listing \in {l \in Listings(MaxItems) : Distinct(l)}
    /\ cwd_names \in SUBSET {<<"v", "i">>}
    /\ unreadable \in SUBSET {FolderPath(<<"p", "r">>)}
    /\ item = 1
    /\ folder_sizes = <<>>

\* clean.py:30-36: one iteration of the loop over root_dir.iterdir().  The
\* except RuntimeError clause never runs: get_folder_size raises none.
MeasureItem ==
    /\ fpc = "loop"
    /\ item <= Len(listing)
    /\ IF listing[item].is_dir
       THEN \E size \in DuSizes :
              LET r == GetFolderSize(FolderPath(listing[item].name), size,
                                     listing, cwd_names, unreadable)
              IN  IF r.raises = "none"
                  THEN /\ folder_sizes' = Append(folder_sizes, r.value)
                       /\ item' = item + 1
                       /\ fpc' = "loop"
                  ELSE /\ fpc' = "raised"
                       /\ UNCHANGED <<folder_sizes, item>>
       ELSE /\ item' = item + 1
            /\ UNCHANGED <<fpc, folder_sizes>>
    /\ UNCHANGED <<listing, cwd_names, unreadable>>

\* clean.py:38-41
ReturnFolders ==
    /\ fpc = "loop"
    /\ item > Len(listing)
    /\ folder_sizes' = SortFolders(folder_sizes)
    /\ fpc' = "returned"
    /\ UNCHANGED <<listing, cwd_names, unreadable, item>>

InitFolders == DupIdle /\ MsIdle /\ DirInit

NextFolders ==
    \/ MeasureItem /\ UNCHANGED <<dupVars, msVars>>
    \/ ReturnFolders /\ UNCHANGED <<dupVars, msVars>>

SpecFolders == InitFolders /\ [][NextFolders]_vars

---------------------------------------------------------------------------
(* Vocabulary of the claims: what an fdupes output says, read off the text *)
(* itself and not off the parser.                                          *)

\* the byte counts the size lines of the pool declare
DeclaredBytes(line) ==
    CASE line = HdrA -> 102400
      [] line = HdrB -> 5000

\* a line that starts with a digit
IsHeaderLine(line) == line # <<>> /\ line[1] \in Digits

\* a header that declares "<N> bytes"
IsDeclaredHeader(line) == line \in {HdrA, HdrB}

IsPathLine(line) == line # <<>> /\ line[1] = "/"

HeaderPositions(text) == {i \in 1..Len(text) : IsHeaderLine(text[i])}

\* the group a header at position h opens ends before the next header
GroupEnd(text, h) ==
    LET later == {i \in HeaderPositions(text) : i > h}
    IN  IF later = {} THEN Len(text)
        ELSE (CHOOSE i \in later : \A j \in later : i <= j) - 1

\* the paths listed under the header at position h, in order; h = 0 stands
\* for the paths listed before any header
GroupPaths(text, h) ==
    SelectSeq(SubSeq(text, h + 1, GroupEnd(text, h)), IsPathLine)

\* groups are header, paths, blank line; the text may end after the last
\* path, and split('\n') leaves further empty strings behind a blank line
WellFormed(text) ==
    /\ \A i \in 1..Len(text) :
         \/ /\ IsDeclaredHeader(text[i])
            /\ i = 1 \/ text[i - 1] = BlankLine
            /\ i < Len(text) /\ IsPathLine(text[i + 1])
         \/ /\ IsPathLine(text[i])
            /\ i > 1 /\ text[i - 1] # BlankLine
         \/ /\ text[i] = BlankLine
            /\ i > 1 /\ ~IsHeaderLine(text[i - 1])

\* no path is listed twice, in one group or in two
DisjointGroups(text) ==
    \A i, j \in 1..Len(text) :
        (IsPathLine(text[i]) /\ text[i] = text[j]) => i = j

Max(a, b) == IF a >= b THEN a ELSE b

\* the number of triples the groups opened at the positions hs account for
RECURSIVE TriplesOfGroups(_, _)
TriplesOfGroups(text, hs) ==
    IF hs = {} THEN 0
    ELSE LET h == CHOOSE g \in hs : TRUE
         IN  Max(Len(GroupPaths(text, h)) - 1, 0)
                 + TriplesOfGroups(text, hs \ {h})

\* the header whose size the parser holds when it flushes the group opened
\* at h: the last header at or before h that declares "<N> bytes"
SizeSource(text, h) ==
    LET declared == {i \in HeaderPositions(text) :
                        i <= h /\ IsDeclaredHeader(text[i])}
    IN  IF declared = {} THEN 0
        ELSE CHOOSE i \in declared : \A j \in declared : i >= j

\* t is the k-th triple of the group at h, sized by the header at position src
IsTripleOf(t, text, h, k, src) ==
    /\ t[1] = GroupPaths(text, h)[1]
    /\ t[2] = GroupPaths(text, h)[k + 1]
    /\ IF src = 0 THEN t[3] = 0
       ELSE /\ t[3] * BytesPerKB <= DeclaredBytes(text[src])
            /\ DeclaredBytes(text[src]) < (t[3] + 1) * BytesPerKB

\* the number of triples the groups opened before position h account for
TriplesBefore(text, h) ==
    TriplesOfGroups(text, {g \in HeaderPositions(text) \cup {0} : g < h})

\* the function has returned
Returned == pc \in {"loop", "stat", "unlink", "done"} \/ (pc = "raised" /\ idx > 0)


AllGroups(text) == HeaderPositions(text) \cup {0}

\* the sum of (n - 1) over the groups opened at the positions hs
RECURSIVE SumSizesMinusOne(_, _)
SumSizesMinusOne(text, hs) ==
    IF hs = {} THEN 0
    ELSE LET h == CHOOSE g \in hs : TRUE
         IN  (Len(GroupPaths(text, h)) - 1) + SumSizesMinusOne(text, hs \ {h})

\* the triples of the group opened at h, as positions of emitted
TripleSlots(text, h) == 1..(Len(GroupPaths(text, h)) - 1)

---------------------------------------------------------------------------
(* Claims about find_duplicates_below.                                     *)

\* C1: for well-formed fdupes output with groups of n_1..n_G paths the
\* function returns exactly the sum of (n_i - 1) triples; whatever the text,
\* a group of one path, and a header with no path under it, add none.
C1_TripleCount ==
    Returned =>
        /\ Len(duplicates) = TriplesOfGroups(stdout, AllGroups(stdout))
        /\ WellFormed(stdout) =>
               Len(duplicates) =
                   SumSizesMinusOne(stdout, HeaderPositions(stdout))

C1_Witness ==
    /\ pc = "done"
    /\ WellFormed(stdout)
    /\ Cardinality(HeaderPositions(stdout)) = 2
    /\ \E h \in HeaderPositions(stdout) : Len(GroupPaths(stdout, h)) = 1
    /\ Len(duplicates) = 1

\* C2: for well-formed fdupes output every returned triple pairs the first
\* path of a group with a later path of that group and carries
\* floor(N / 1024) for the N of that group's own header; the flushes emit
\* the triples group by group, in the order of the text.
C2_OwnHeaderSize ==
    (Returned /\ WellFormed(stdout)) =>
        /\ \A h \in HeaderPositions(stdout) :
               \A k \in TripleSlots(stdout, h) :
                   IsTripleOf(emitted[TriplesBefore(stdout, h) + k],
                              stdout, h, k, h)
        /\ \A n \in 1..Len(duplicates) :
               \E h \in HeaderPositions(stdout) :
                   \E k \in TripleSlots(stdout, h) :
                       IsTripleOf(duplicates[n], stdout, h, k, h)

C2_Witness ==
    /\ pc = "done"
    /\ WellFormed(stdout)
    /\ duplicates = <<<<PathF, PathF1, 100>>>>
    /\ \E h \in HeaderPositions(stdout) : stdout[h] = HdrB

\* C3: the returned list is ordered by size, largest first, and is a
\* permutation of the triples the flushes emitted.
C3_SortedPermutation ==
    Returned =>
        /\ \A n \in 1..(Len(duplicates) - 1) :
               duplicates[n][3] >= duplicates[n + 1][3]
        /\ Len(duplicates) = Len(emitted)
        /\ \A n \in 1..Len(emitted) :
               Cardinality({m \in 1..Len(duplicates) :
                               duplicates[m] = emitted[n]})
                   = Cardinality({m \in 1..Len(emitted) :
                                     emitted[m] = emitted[n]})

C3_Witness ==
    /\ pc = "done"
    /\ Len(emitted) = 2
    /\ emitted[1][3] < emitted[2][3]
    /\ duplicates = <<emitted[2], emitted[1]>>

\* C7: a non-zero exit of fdupes raises at once, FileNotFoundError when the
\* error stream contains 'command not found' and RuntimeError with the error
\* text otherwise; nothing is parsed or returned, fdupes is not run again,
\* and lines are parsed only after a zero exit.
C7_FailFast ==
    /\ runs <= 1
    /\ (pc # "start" /\ returncode # 0) =>
           /\ pc = "raised"
           /\ runs = 1
           /\ stdout = <<>> /\ duplicates = <<>> /\ emitted = <<>>
           /\ idx = 0
           /\ Contains(stderr, CommandNotFound) => exc = "FileNotFoundError"
           /\ ~Contains(stderr, CommandNotFound) =>
                  exc = "RuntimeError" /\ exc_text = stderr
    /\ (stdout # <<>> \/ Returned) => returncode = 0

C7_Witness ==
    /\ pc = "raised"
    /\ returncode = 127
    /\ stderr = ErrNotFound
    /\ exc = "FileNotFoundError"

\* C9: a size line without "<N> bytes" raises nothing; it flushes the group
\* before it and opens a new one, the size keeps its value, and the triples
\* of the group under that line carry the size of the last header that did
\* declare one, or 0 when there was none.
C9_StaleSize ==
    /\ (pc = "parse" /\ stdout # <<>> /\ stdout[Len(stdout)] = HdrByte) =>
           /\ exc = "none"
           /\ current_group = <<>>
           /\ Len(duplicates) = TriplesBefore(stdout, Len(stdout))
           /\ LET src == SizeSource(stdout, Len(stdout))
              IN  IF src = 0 THEN current_size = 0
                  ELSE current_size = DeclaredBytes(stdout[src]) \div BytesPerKB
    /\ Returned =>
           \A h \in HeaderPositions(stdout) :
               stdout[h] = HdrByte =>
                   \A k \in TripleSlots(stdout, h) :
                       IsTripleOf(emitted[TriplesBefore(stdout, h) + k],
                                  stdout, h, k, SizeSource(stdout, h))

C9_Witness ==
    /\ pc = "done"
    /\ stdout = <<HdrA, PathF, HdrByte, PathF, PathF1>>
    /\ duplicates = <<<<PathF, PathF1, 100>>>>


---------------------------------------------------------------------------
(* Claims about the cleanup loop.                                          *)

\* the bytes of the unlink() calls that succeeded
RECURSIVE SumUnlinked(_)
SumUnlinked(u) == IF u = <<>> THEN 0 ELSE Head(u)[2] + SumUnlinked(Tail(u))

\* C5: when the loop has run to completion, deleted_amount is the sum of the
\* sizes, as stat() returned them, of the paths unlinked, and no path was
\* unlinked or counted twice.
C5_ExactTotal ==
    pc = "done" =>
        /\ deleted_amount = SumUnlinked(unlinked)
        /\ \A i, j \in 1..Len(unlinked) :
               unlinked[i][1] = unlinked[j][1] => i = j
        /\ \A i \in 1..Len(unlinked) : unlinked[i][1] \notin exists

C5_Witness ==
    /\ pc = "done"
    /\ Len(unlinked) = 2
    /\ unlinked[1][2] # unlinked[2][2]
    /\ deleted_amount = unlinked[1][2] + unlinked[2][2]

\* C6: between the statements of the loop and after it has ended, by
\* completion or by an exception, deleted_amount holds no bytes of a path
\* that was not removed.
C6_OnlyCompletedDeletions ==
    pc \in {"loop", "stat", "done", "raised"} =>
        deleted_amount = SumUnlinked(unlinked)

\* C10: the loop deletes only the duplicate member of a triple, never its
\* original; after a run on well-formed output whose groups are disjoint
\* the first-listed file of every group still exists.
C10_SurvivorKept ==
    /\ pc \in {"stat", "unlink"} =>
           \A k \in 1..Len(pending) :
               /\ pending[k] = duplicates[idx][2]
               /\ pending[k] # duplicates[idx][1]
    /\ (Returned /\ WellFormed(stdout) /\ DisjointGroups(stdout)) =>
           \A h \in HeaderPositions(stdout) :
               GroupPaths(stdout, h)[1] \in exists

C10_Witness ==
    /\ pc = "done"
    /\ WellFormed(stdout)
    /\ DisjointGroups(stdout)
    /\ unlinked # <<>>
    /\ \A h \in HeaderPositions(stdout) : GroupPaths(stdout, h)[1] \in exists


---------------------------------------------------------------------------
(* Claims about find_browser_multi_saves.                                  *)

\* "f.t"
NameF == <<"f", ".", "t">>
\* "f (1).t"
NameF1 == <<"f", " ", "(", "1", ")", ".", "t">>
\* "f (2).t"
NameF2 == <<"f", " ", "(", "2", ")", ".", "t">>
\* "f (1) (2).t"
NameF12 == <<"f", " ", "(", "1", ")", " ", "(", "2", ")", ".", "t">>
\* "f (x).t"
NameFx == <<"f", " ", "(", "x", ")", ".", "t">>
\* "f (1).a.t"
NameF1at == <<"f", " ", "(", "1", ")", ".", "a", ".", "t">>

\* the filename of each path of the pool
FileNameOf(p) ==
    CASE p = PathF -> NameF
      [] p = PathF1 -> NameF1
      [] p = PathF2 -> NameF2
      [] p = PathEF1 -> NameF1
      [] p = PathF12 -> NameF12
      [] p = PathFx -> NameFx
      [] p = PathF1at -> NameF1at

\* the filenames of the form <stem> (<digits>)<ext>
MultiSaveForm == {NameF1, NameF2, NameF12}

\* <stem><ext> of such a filename
CanonicalOf(name) ==
    CASE name = NameF1 -> NameF
      [] name = NameF2 -> NameF
      [] name = NameF12 -> NameF1

\* the i-th path is reported: its filename has the multi-save form and its
\* canonical name is the filename of an earlier path that was not reported
RECURSIVE IsReported(_, _)
IsReported(paths, i) ==
    /\ FileNameOf(paths[i]) \in MultiSaveForm
    /\ \E j \in 1..(i - 1) :
           /\ ~IsReported(paths, j)
           /\ FileNameOf(paths[j]) = CanonicalOf(FileNameOf(paths[i]))

\* the reported paths among the first n, in input order
RECURSIVE ReportedUpTo(_, _)
ReportedUpTo(paths, n) ==
    IF n = 0 THEN <<>>
    ELSE ReportedUpTo(paths, n - 1)
             \o (IF IsReported(paths, n) THEN <<paths[n]>> ELSE <<>>)

\* C4: the function returns, in input order, exactly the paths whose
\* filename has the multi-save form and whose canonical name was registered
\* by an earlier path, a path registering its own filename iff it is not
\* reported; so [f.t, f (1).t] gives [f (1).t], [f (1).t, f (2).t] gives [],
\* and of two paths only the second can be returned, when its canonical name
\* is the filename of the first.
C4_MultiSaves ==
    mpc = "returned" =>
        /\ multi_saves = ReportedUpTo(file_paths, Len(file_paths))
        /\ file_paths = <<PathF, PathF1>> => multi_saves = <<PathF1>>
        /\ file_paths = <<PathF1, PathF2>> => multi_saves = <<>>
        /\ (Len(file_paths) = 2 /\ multi_saves # <<>>) =>
               /\ multi_saves = <<file_paths[2]>>
               /\ FileNameOf(file_paths[2]) \in MultiSaveForm
               /\ CanonicalOf(FileNameOf(file_paths[2]))
                      = FileNameOf(file_paths[1])

C4_Witness ==
    /\ mpc = "returned"
    /\ file_paths = <<PathF, PathF1, PathF12>>
    /\ multi_saves = <<PathF1>>

---------------------------------------------------------------------------
(* Claims about find_largest_folders.                                      *)

\* the positions of the subdirectories in the listing
SubdirPositions == {i \in 1..Len(listing) : listing[i].is_dir}

\* C8: no measurement ends the inventory; the result holds exactly one entry
\* for every immediate subdirectory of root_dir.
C8_NeverAborts ==
    /\ fpc # "raised"
    /\ fpc = "returned" =>
           \A i \in SubdirPositions :
               Cardinality({k \in 1..Len(folder_sizes) :
                   folder_sizes[k][1] = FolderPath(listing[i].name)}) = 1

====
